---- MODULE Spec2Model ----
(***************************************************************************)
(* Model of src/train.py: the ModelTrainer class.                          *)
(*                                                                         *)
(* An example is identified by its dataset index; a batch is the sequence  *)
(* of the dataset indices it carries, a loader is a sequence of batches.   *)
(* The network is represented by the classifier it induces                 *)
(* (index -> predicted class, the arg-max of the logits).  The summed      *)
(* cross-entropy loss is a real number the model does not compute; only    *)
(* the place where it is divided by n_examples is kept.  Accuracies are    *)
(* exact rationals <<numerator, denominator>> in lowest terms.             *)
(***************************************************************************)
EXTENDS Integers, Sequences, FiniteSets, TLC

\* ---------------------------------------------------------------- bounds
NumClasses == 2
MaxBatches == 2
MaxBatchSize == 1
MaxFullDomain == 2
MaxCallEpoch == 2
MaxEpochs == 12
MaxInterval == 5
MaxSSLEpochs == 3
MaxSSLInterval == 2

\* ------------------------------------------------------ program constants
None == -1
ProbeBatches == 4
InitialLR == 100000
GammaDen == 10

Classes == 0 .. (NumClasses - 1)
lr_schedule == <<3, 6>>

VARIABLES args, dataloader, model, best_test_accuracy, best_test_epoch,
          iter, last_epoch, lr, saved, pc, epoch,
          predictions_indices, predictions_labels, error, call, hist

vars == <<args, dataloader, model, best_test_accuracy, best_test_epoch,
          iter, last_epoch, lr, saved, pc, epoch,
          predictions_indices, predictions_labels, error, call, hist>>

\* ------------------------------------------------------------ arithmetic
RECURSIVE GCD(_, _)
GCD(a, b) == IF b = 0 THEN a ELSE GCD(b, a % b)

Rat(n, d) == LET g == GCD(n, d) IN <<n \div g, d \div g>>

Geq(a, b) == a[1] * b[2] >= b[1] * a[2]

RECURSIVE SumSeq(_)
SumSeq(s) == IF s = <<>> THEN 0 ELSE Head(s) + SumSeq(Tail(s))

RECURSIVE Pow(_, _)
Pow(b, n) == IF n = 0 THEN 1 ELSE b * Pow(b, n - 1)

\* ------------------------------------------------------------- data sets
\* the loader whose j-th batch carries sizes[j] consecutive dataset indices
Stream(first, sizes) ==
    [j \in 1 .. Len(sizes) |->
        [i \in 1 .. sizes[j] |-> first + SumSeq(SubSeq(sizes, 1, j - 1)) + i - 1]]

IndicesOf(loader) == UNION {{loader[j][i] : i \in 1 .. Len(loader[j])} : j \in 1 .. Len(loader)}

\* ground-truth label of a dataset example
Target(i) == i % NumClasses

\* the classifiers the network may induce on the examples 0 .. n-1: every
\* one when n is small, otherwise those that are right exactly below or
\* exactly from a threshold on
Models(n) ==
    IF n <= MaxFullDomain
    THEN [0 .. (n - 1) -> Classes]
    ELSE {[i \in 0 .. (n - 1) |-> IF i < t THEN Target(i) ELSE (Target(i) + 1) % NumClasses] : t \in 0 .. n}
         \cup {[i \in 0 .. (n - 1) |-> IF i >= t THEN Target(i) ELSE (Target(i) + 1) % NumClasses] : t \in 0 .. n}

Truthy(n) == n # None /\ n # 0

\* ------------------------------------------------- evaluate (lines 181-243)
IdleCall == [op |-> "none", split |-> "", epoch |-> None, verbose |-> FALSE,
             n_batches |-> None, pc |-> "idle", batch_idx |-> 0, consumed |-> 0,
             correct |-> 0, n_examples |-> 0,
             predictions_indices |-> <<>>, predictions_labels |-> <<>>,
             ret |-> <<>>, best_before |-> <<>>]

\* locals on entry of evaluate / generate_labels_for_ssl
NewCall(op, split, ep, verbose, n_batches, loader, best) ==
    [IdleCall EXCEPT !.op = op, !.split = split, !.epoch = ep, !.verbose = verbose,
                     !.n_batches = n_batches, !.best_before = best,
                     !.pc = IF Len(loader) = 0 THEN "finalize" ELSE "loop"]

Loader(dl, split) == IF split = "Val" THEN dl.val_loader ELSE dl.test_loader

\* pred.eq(targets).sum()
Correct(m, batch) == Cardinality({i \in 1 .. Len(batch) : m[batch[i]] = Target(batch[i])})

\* the cap test at the bottom of the loop body
BreakDue(n_batches, batch_idx) == Truthy(n_batches) /\ batch_idx >= n_batches

\* where the loop goes after the body ran on batch batch_idx
AfterBody(c, loader) ==
    IF BreakDue(c.n_batches, c.batch_idx) \/ c.batch_idx + 1 = Len(loader)
    THEN [c EXCEPT !.pc = "finalize"]
    ELSE [c EXCEPT !.batch_idx = @ + 1]

\* a loop body that counts batches where it should count examples
EvaluateBatchCountsBatches(c, loader, m) ==
    LET batch == loader[c.batch_idx + 1]
    IN  AfterBody([c EXCEPT !.correct = @ + Correct(m, batch),
                            !.n_examples = @ + 1,
                            !.consumed = @ + 1], loader)

\* one iteration of the loop of evaluate
EvaluateBatch(c, loader, m) ==
    LET batch == loader[c.batch_idx + 1]
    IN  AfterBody([c EXCEPT !.correct = @ + Correct(m, batch),
                            !.n_examples = @ + Len(batch),
                            !.consumed = @ + 1], loader)

\* a loop body that collects the labels of a batch in reverse
GenerateBatchReversed(c, loader, m) ==
    LET batch == loader[c.batch_idx + 1]
    IN  AfterBody([c EXCEPT !.correct = @ + Correct(m, batch),
                            !.n_examples = @ + Len(batch),
                            !.consumed = @ + 1,
                            !.predictions_indices = @ \o batch,
                            !.predictions_labels =
                                @ \o [i \in 1 .. Len(batch) |-> m[batch[Len(batch) + 1 - i]]]],
                  loader)

\* one iteration of the loop of generate_labels_for_ssl
GenerateBatch(c, loader, m) ==
    LET batch == loader[c.batch_idx + 1]
    IN  AfterBody([c EXCEPT !.correct = @ + Correct(m, batch),
                            !.n_examples = @ + Len(batch),
                            !.consumed = @ + 1,
                            !.predictions_indices = @ \o batch,
                            !.predictions_labels = @ \o [i \in 1 .. Len(batch) |-> m[batch[i]]]],
                  loader)

\* utils.convert_for_print: turns a tensor into the number it holds
convert_for_print(x) == x

\* an update on better only, ties excluded
BestUpdateStrict(split, acc, best_acc) == split = "Test" /\ ~ Geq(best_acc, acc)

\* an update whatever the split
BestUpdateAnySplit(split, acc, best_acc) == Geq(acc, best_acc)

\* `split == "Test" and acc >= self.best_test_accuracy`
BestUpdateDue(split, acc, best_acc) == split = "Test" /\ Geq(acc, best_acc)

\* a finish that reports 0 for a pass without examples
EvaluateFinishZero(c, best_acc, best_ep) ==
    LET acc == IF c.n_examples = 0 THEN <<0, 1>> ELSE Rat(100 * c.correct, c.n_examples)
        upd == BestUpdateDue(c.split, acc, best_acc)
    IN  [raised |-> "",
         ret |-> acc,
         best_test_accuracy |-> IF upd THEN convert_for_print(acc) ELSE best_acc,
         best_test_epoch |-> IF c.verbose /\ c.epoch = None THEN 0
                             ELSE IF upd THEN c.epoch ELSE best_ep]

\* evaluate after the loop: the division, the best record, the verbose part
EvaluateFinish(c, best_acc, best_ep) ==
    IF c.n_examples = 0
    THEN [raised |-> "ZeroDivisionError", ret |-> <<>>,
          best_test_accuracy |-> best_acc, best_test_epoch |-> best_ep]
    ELSE LET acc == Rat(100 * c.correct, c.n_examples)
             upd == BestUpdateDue(c.split, acc, best_acc)
         IN  [raised |-> "",
              ret |-> acc,
              best_test_accuracy |-> IF upd THEN convert_for_print(acc) ELSE best_acc,
              best_test_epoch |-> IF c.verbose /\ c.epoch = None THEN 0
                                  ELSE IF upd THEN c.epoch ELSE best_ep]

\* generate_labels_for_ssl after the loop
GenerateFinish(c) ==
    IF c.n_examples = 0
    THEN [raised |-> "ZeroDivisionError", ret |-> <<>>]
    ELSE [raised |-> "", ret |-> <<c.predictions_indices, c.predictions_labels>>]

RECURSIVE EvaluateLoop(_, _, _)
EvaluateLoop(c, loader, m) ==
    IF c.pc = "loop" THEN EvaluateLoop(EvaluateBatch(c, loader, m), loader, m) ELSE c

RECURSIVE GenerateLoop(_, _, _)
GenerateLoop(c, loader, m) ==
    IF c.pc = "loop" THEN GenerateLoop(GenerateBatch(c, loader, m), loader, m) ELSE c

\* a whole call of evaluate
evaluate(dl, m, best_acc, best_ep, split, ep, verbose, n_batches) ==
    EvaluateFinish(EvaluateLoop(NewCall("evaluate", split, ep, verbose, n_batches,
                                        Loader(dl, split), <<best_acc, best_ep>>),
                                Loader(dl, split), m),
                   best_acc, best_ep)

\* a whole call of generate_labels_for_ssl
generate_labels_for_ssl(dl, m, ep, n_batches, verbose) ==
    GenerateFinish(GenerateLoop(NewCall("generate", "", ep, verbose, n_batches,
                                        dl.unsupervised_train_loader, <<>>),
                                dl.unsupervised_train_loader, m))


\* ------------------------------------------- the data-loading collaborator
\* a data set: the three evaluation loaders over disjoint examples, the
\* number of batches of the training loader, the stop flag, the values the
\* collaborator may leave in the flag when it is called, and the arguments
\* of the last ssl_init_epoch
MkData(train_batches, val_sizes, test_sizes, unl_sizes, policy) ==
    [train_batches |-> train_batches,
     val_loader |-> Stream(0, val_sizes),
     test_loader |-> Stream(SumSeq(val_sizes), test_sizes),
     unsupervised_train_loader |-> Stream(SumSeq(val_sizes) + SumSeq(test_sizes), unl_sizes),
     examples |-> SumSeq(val_sizes) + SumSeq(test_sizes) + SumSeq(unl_sizes),
     stop_label_generation |-> FALSE,
     stop_policy |-> policy,
     labeled |-> <<>>]

\* one loader serving as validation, test and unlabeled stream
OneLoader(sizes) ==
    [MkData(1, <<>>, <<>>, <<>>, {}) EXCEPT !.val_loader = Stream(0, sizes),
                                            !.test_loader = Stream(0, sizes),
                                            !.unsupervised_train_loader = Stream(0, sizes),
                                            !.examples = SumSeq(sizes)]

\* the states the collaborator may be in after a call into it
Collab(dl) == {[dl EXCEPT !.stop_label_generation = b] :
                  b \in dl.stop_policy \cup {dl.stop_label_generation}}

\* dataloader.ssl_init_epoch(indices, labels)
ssl_init_epoch(dl, indices, labels) == Collab([dl EXCEPT !.labeled = <<indices, labels>>])

InitHist == [steps |-> <<>>, rebuild_epochs |-> <<>>, gen_epochs |-> <<>>,
             train_epochs |-> <<>>, test_epochs |-> <<>>,
             rebuild_args |-> <<>>, gen_ret |-> <<>>,
             flag_e1_false |-> TRUE, flag_ge2_true |-> TRUE,
             flag_all_false |-> TRUE, pred_at_2 |-> <<>>,
             lr_at_train |-> <<>>, test_max |-> <<0, 1>>, test_argmax |-> 0,
             closed |-> 0]

\* the trainer after __init__ (lines 23-113), before a driver runs
Constructed ==
    /\ best_test_accuracy = <<0, 1>>
    /\ best_test_epoch = 0
    /\ iter = 0
    /\ last_epoch = 0
    /\ lr = InitialLR
    /\ saved = <<>>
    /\ epoch = 0
    /\ predictions_indices = <<>>
    /\ predictions_labels = <<>>
    /\ error = ""
    /\ call = IdleCall
    /\ hist = InitHist

\* ------------------------------------- the trainer used call by call
SizeSeqs == UNION {[1 .. n -> 1 .. MaxBatchSize] : n \in 0 .. MaxBatches}
            \cup {<<4, 4>>, <<1, 1, 1, 1, 1, 1>>}

Caps == {None, 1, ProbeBatches}

CallEpochs == {None} \cup (1 .. MaxCallEpoch)

EvalInit ==
    /\ args = [training_mode |-> "api", epochs |-> 0, checkpoint_save_interval |-> 1,
               lr_scheduler |-> FALSE, lr_reducer |-> FALSE, log_interval |-> 1,
               exp_name |-> "exp"]
    /\ \E sizes \in SizeSeqs :
          /\ dataloader = OneLoader(sizes)
          /\ model \in Models(SumSeq(sizes))
    /\ pc = "api"
    /\ Constructed

DriverFrame == UNCHANGED <<args, dataloader, iter, last_epoch, lr, saved, epoch,
                           predictions_indices, predictions_labels, hist>>

CallEvaluate ==
    /\ pc = "api" /\ call.pc = "idle"
    /\ \E split \in {"Val", "Test"}, ep \in CallEpochs, verbose \in BOOLEAN, n_batches \in Caps :
          call' = NewCall("evaluate", split, ep, verbose, n_batches, Loader(dataloader, split),
                          <<best_test_accuracy, best_test_epoch>>)
    /\ UNCHANGED <<model, best_test_accuracy, best_test_epoch, pc, error>>
    /\ DriverFrame

CallGenerate ==
    /\ pc = "api" /\ call.pc = "idle"
    /\ \E ep \in 1 .. MaxCallEpoch, verbose \in BOOLEAN, n_batches \in Caps :
          call' = NewCall("generate", "", ep, verbose, n_batches,
                          dataloader.unsupervised_train_loader,
                          <<best_test_accuracy, best_test_epoch>>)
    /\ UNCHANGED <<model, best_test_accuracy, best_test_epoch, pc, error>>
    /\ DriverFrame

StepEvaluate ==
    /\ call.op = "evaluate" /\ call.pc = "loop"
    /\ call' = EvaluateBatch(call, Loader(dataloader, call.split), model)
    /\ UNCHANGED <<model, best_test_accuracy, best_test_epoch, pc, error>>
    /\ DriverFrame

StepGenerate ==
    /\ call.op = "generate" /\ call.pc = "loop"
    /\ call' = GenerateBatch(call, dataloader.unsupervised_train_loader, model)
    /\ UNCHANGED <<model, best_test_accuracy, best_test_epoch, pc, error>>
    /\ DriverFrame

FinishEvaluate ==
    /\ call.op = "evaluate" /\ call.pc = "finalize"
    /\ LET r == EvaluateFinish(call, best_test_accuracy, best_test_epoch)
       IN  /\ best_test_accuracy' = r.best_test_accuracy
           /\ best_test_epoch' = r.best_test_epoch
           /\ error' = r.raised
           /\ pc' = IF r.raised = "" THEN pc ELSE "raised"
           /\ call' = [call EXCEPT !.ret = r.ret,
                                   !.pc = IF r.raised = "" THEN "done" ELSE "raised"]
    /\ UNCHANGED model
    /\ DriverFrame

FinishGenerate ==
    /\ call.op = "generate" /\ call.pc = "finalize"
    /\ LET r == GenerateFinish(call)
       IN  /\ error' = r.raised
           /\ pc' = IF r.raised = "" THEN pc ELSE "raised"
           /\ call' = [call EXCEPT !.ret = r.ret,
                                   !.pc = IF r.raised = "" THEN "done" ELSE "raised"]
    /\ UNCHANGED <<model, best_test_accuracy, best_test_epoch>>
    /\ DriverFrame

\* the call returns to its caller
Return ==
    /\ pc = "api" /\ call.pc = "done"
    /\ call' = IdleCall
    /\ UNCHANGED <<model, best_test_accuracy, best_test_epoch, pc, error>>
    /\ DriverFrame

\* self.opt.step() between two calls: the parameters change
OptStep ==
    /\ pc = "api" /\ call.pc = "idle"
    /\ model' \in Models(dataloader.examples) \ {model}
    /\ UNCHANGED <<best_test_accuracy, best_test_epoch, pc, error, call>>
    /\ DriverFrame

EvalNext == \/ CallEvaluate \/ CallGenerate \/ StepEvaluate \/ StepGenerate
            \/ FinishEvaluate \/ FinishGenerate \/ Return \/ OptStep

SpecEval == EvalInit /\ [][EvalNext]_vars


\* ------------------------------------------------------------ the drivers
\* a schedule that decays one step late
MultiStepLRLate(base, milestones, gamma_den, le) ==
    base \div Pow(gamma_den, Cardinality({i \in 1 .. Len(milestones) : milestones[i] < le}))

\* optim.lr_scheduler.MultiStepLR: the rate after last_epoch steps
MultiStepLR(base, milestones, gamma_den, le) ==
    base \div Pow(gamma_den, Cardinality({i \in 1 .. Len(milestones) : milestones[i] <= le}))

\* a save one epoch after the interval
SaveDueShifted(ep, interval) == ep % interval = 1 % interval

\* epoch % checkpoint_save_interval == 0
SaveDue(ep, interval) == ep % interval = 0

\* a driver that does not look at the flag
LabelsDueAlways(dl) == TRUE

\* `if not self.dataloader.stop_label_generation`
LabelsDue(dl) == ~ dl.stop_label_generation

\* a PredictionSet that accumulates over the passes
NextPredictionSetMerged(indices, labels, ret) == <<indices \o ret[1], labels \o ret[2]>>

\* the PredictionSet after the generator returned ret
NextPredictionSet(indices, labels, ret) == ret

\* the history of the flag as the driver read it
ReadFlag(h, ep, flag) ==
    [h EXCEPT !.flag_e1_false = @ /\ (ep = 1 => ~ flag),
              !.flag_ge2_true = @ /\ (ep >= 2 => flag),
              !.flag_all_false = @ /\ ~ flag]

Raise(e) ==
    /\ error' = e
    /\ pc' = "raised"

\* lines 301 and 332-334, and the entry of the loop over the epochs
Begin ==
    /\ pc = "main"
    /\ iter' = 0
    /\ IF args.training_mode = "semi-supervised"
       THEN /\ predictions_indices' = <<>>
            /\ predictions_labels' = <<>>
            /\ dataloader' = [dataloader EXCEPT !.stop_label_generation = FALSE]
       ELSE UNCHANGED <<predictions_indices, predictions_labels, dataloader>>
    /\ IF args.epochs >= 1
       THEN /\ epoch' = 1
            /\ pc' = IF args.training_mode = "semi-supervised" THEN "ssl_init" ELSE "train_val"
       ELSE /\ pc' = "closing"
            /\ UNCHANGED epoch
    /\ UNCHANGED <<args, model, best_test_accuracy, best_test_epoch, last_epoch, lr,
                   saved, error, call, hist>>

\* lines 337-338
SslInitEpoch ==
    /\ pc = "ssl_init"
    /\ LET h0 == [ReadFlag(hist, epoch, dataloader.stop_label_generation)
                    EXCEPT !.steps = <<>>,
                           !.pred_at_2 = IF epoch = 2
                                         THEN <<predictions_indices, predictions_labels>>
                                         ELSE @]
       IN  IF LabelsDue(dataloader)
           THEN /\ dataloader' \in ssl_init_epoch(dataloader, predictions_indices,
                                                  predictions_labels)
                /\ hist' = [h0 EXCEPT !.steps = <<"ssl_init_epoch">>,
                                      !.rebuild_epochs = Append(@, epoch),
                                      !.rebuild_args = <<predictions_indices,
                                                         predictions_labels>>]
           ELSE /\ hist' = h0
                /\ UNCHANGED dataloader
    /\ pc' = "train_val"
    /\ UNCHANGED <<args, model, best_test_accuracy, best_test_epoch, iter, last_epoch, lr,
                   saved, epoch, predictions_indices, predictions_labels, error, call>>

\* train_val (lines 115-179): every batch steps the optimiser and counts an
\* iteration; batch 0 (and every log_interval-th one) probes the validation
\* loader with n_batches=4; with lr_reducer a full validation pass follows
TrainVal ==
    /\ pc = "train_val"
    /\ model' \in Models(dataloader.examples)
    /\ \E dl \in (IF args.training_mode = "semi-supervised"
                  THEN Collab(dataloader) ELSE {dataloader}) :
          LET probe == evaluate(dl, model', best_test_accuracy, best_test_epoch,
                                "Val", None, FALSE, ProbeBatches)
              full == IF args.lr_reducer
                      THEN evaluate(dl, model', probe.best_test_accuracy,
                                    probe.best_test_epoch, "Val", None, FALSE, None)
                      ELSE probe
              h0 == IF args.training_mode = "semi-supervised" THEN hist
                    ELSE [hist EXCEPT !.steps = <<>>]
          IN  /\ dataloader' = dl
              /\ IF probe.raised # ""
                 THEN /\ Raise(probe.raised)
                      /\ iter' = iter + 1
                      /\ hist' = h0
                      /\ UNCHANGED <<best_test_accuracy, best_test_epoch>>
                 ELSE /\ iter' = iter + dl.train_batches
                      /\ best_test_accuracy' = full.best_test_accuracy
                      /\ best_test_epoch' = full.best_test_epoch
                      /\ hist' = [h0 EXCEPT !.steps = Append(@, "train_val"),
                                            !.train_epochs = Append(@, epoch),
                                            !.lr_at_train = Append(@, lr)]
                      /\ pc' = "test"
                      /\ UNCHANGED error
    /\ UNCHANGED <<args, last_epoch, lr, saved, epoch, predictions_indices,
                   predictions_labels, call>>

\* self.evaluate("Test", epoch, verbose=True), lines 304 and 341
TestEval ==
    /\ pc = "test"
    /\ LET r == evaluate(dataloader, model, best_test_accuracy, best_test_epoch,
                         "Test", epoch, TRUE, None)
       IN  IF r.raised # ""
           THEN /\ Raise(r.raised)
                /\ UNCHANGED <<best_test_accuracy, best_test_epoch, hist>>
           ELSE /\ best_test_accuracy' = r.best_test_accuracy
                /\ best_test_epoch' = r.best_test_epoch
                /\ hist' = [hist EXCEPT
                              !.steps = Append(@, "evaluate"),
                              !.test_epochs = Append(@, epoch),
                              !.test_max = IF Geq(@, r.ret) THEN @ ELSE r.ret,
                              !.test_argmax = IF Geq(r.ret, hist.test_max) THEN epoch ELSE @]
                /\ pc' = IF args.training_mode = "semi-supervised" THEN "generate"
                         ELSE "lr_step"
                /\ UNCHANGED error
    /\ UNCHANGED <<args, dataloader, model, iter, last_epoch, lr, saved, epoch,
                   predictions_indices, predictions_labels, call>>

\* lines 343-346
GenerateLabels ==
    /\ pc = "generate"
    /\ LET h0 == ReadFlag(hist, epoch, dataloader.stop_label_generation)
           r == generate_labels_for_ssl(dataloader, model, epoch, ProbeBatches, TRUE)
       IN  IF ~ LabelsDue(dataloader)
           THEN /\ hist' = h0
                /\ pc' = "lr_step"
                /\ UNCHANGED <<dataloader, predictions_indices, predictions_labels, error>>
           ELSE /\ dataloader' \in Collab(dataloader)
                /\ IF r.raised # ""
                   THEN /\ Raise(r.raised)
                        /\ hist' = h0
                        /\ UNCHANGED <<predictions_indices, predictions_labels>>
                   ELSE /\ predictions_indices' =
                              NextPredictionSet(predictions_indices, predictions_labels, r.ret)[1]
                        /\ predictions_labels' =
                              NextPredictionSet(predictions_indices, predictions_labels, r.ret)[2]
                        /\ hist' = [h0 EXCEPT !.steps = Append(@, "generate_labels_for_ssl"),
                                              !.gen_epochs = Append(@, epoch),
                                              !.gen_ret = <<epoch, r.ret[1], r.ret[2]>>]
                        /\ pc' = "lr_step"
                        /\ UNCHANGED error
    /\ UNCHANGED <<args, model, best_test_accuracy, best_test_epoch, iter, last_epoch, lr,
                   saved, epoch, call>>

\* lines 305-306 and 348-349
LrStep ==
    /\ pc = "lr_step"
    /\ IF args.lr_scheduler
       THEN /\ last_epoch' = last_epoch + 1
            /\ lr' = MultiStepLR(InitialLR, lr_schedule, GammaDen, last_epoch + 1)
            /\ hist' = [hist EXCEPT !.steps = Append(@, "lr_scheduler.step")]
       ELSE UNCHANGED <<last_epoch, lr, hist>>
    /\ pc' = "checkpoint"
    /\ UNCHANGED <<args, dataloader, model, best_test_accuracy, best_test_epoch, iter,
                   saved, epoch, predictions_indices, predictions_labels, error, call>>

\* lines 307-316 and 350-359, and the step of the loop over the epochs
Checkpoint ==
    /\ pc = "checkpoint"
    /\ IF SaveDue(epoch, args.checkpoint_save_interval)
       THEN /\ saved' = Append(saved, <<args.exp_name, epoch>>)
            /\ hist' = [hist EXCEPT !.steps = Append(@, "torch.save")]
       ELSE UNCHANGED <<saved, hist>>
    /\ IF epoch < args.epochs
       THEN /\ epoch' = epoch + 1
            /\ pc' = IF args.training_mode = "semi-supervised" THEN "ssl_init" ELSE "train_val"
       ELSE /\ pc' = "closing"
            /\ UNCHANGED epoch
    /\ UNCHANGED <<args, dataloader, model, best_test_accuracy, best_test_epoch, iter,
                   last_epoch, lr, predictions_indices, predictions_labels, error, call>>

\* lines 318-328 and 361-371
Finish ==
    /\ pc = "closing"
    /\ pc' = "done"
    /\ hist' = [hist EXCEPT !.closed = @ + 1]
    /\ UNCHANGED <<args, dataloader, model, best_test_accuracy, best_test_epoch, iter,
                   last_epoch, lr, saved, epoch, predictions_indices, predictions_labels,
                   error, call>>

Next == \/ Begin \/ SslInitEpoch \/ TrainVal \/ TestEval \/ GenerateLabels
        \/ LrStep \/ Checkpoint \/ Finish

\* the semi-supervised driver over a few epochs, the collaborator free to
\* set and clear its flag, with the step-wise schedule or the plateau reducer
SSLData == {MkData(2, <<1>>, <<1, 1>>, <<1>>, BOOLEAN),
            MkData(1, <<1>>, <<2>>, <<>>, BOOLEAN),
            MkData(1, <<1>>, <<>>, <<1>>, BOOLEAN),
            MkData(1, <<>>, <<1>>, <<1>>, BOOLEAN)}

SSLInit ==
    /\ \E e \in 1 .. MaxSSLEpochs, k \in 1 .. MaxSSLInterval, sch \in BOOLEAN :
          args = [training_mode |-> "semi-supervised", epochs |-> e,
                  checkpoint_save_interval |-> k, lr_scheduler |-> sch,
                  lr_reducer |-> ~ sch, log_interval |-> 1, exp_name |-> "exp"]
    /\ dataloader \in SSLData
    /\ model \in Models(dataloader.examples)
    /\ pc = "main"
    /\ Constructed

SpecSSL == SSLInit /\ [][Next]_vars

\* both drivers over many epochs on a one-example data set, with the
\* step-wise schedule, the collaborator never stopping or stopping for good
RunData == {[OneLoader(<<1>>) EXCEPT !.stop_policy = p] : p \in {{}, {TRUE}}}

\* short runs and the longest one
EpochBudgets == {1, 2, 3, MaxEpochs}

Init ==
    /\ \E mode \in {"supervised", "semi-supervised"}, e \in EpochBudgets,
          k \in 1 .. MaxInterval :
          args = [training_mode |-> mode, epochs |-> e,
                  checkpoint_save_interval |-> k, lr_scheduler |-> TRUE,
                  lr_reducer |-> FALSE, log_interval |-> 1, exp_name |-> "exp"]
    /\ dataloader \in RunData
    /\ model \in Models(dataloader.examples)
    /\ pc = "main"
    /\ Constructed

Spec == Init /\ [][Next]_vars


\* ------------------------------------------------------------ properties
SSL == args.training_mode = "semi-supervised"

InitialBest == best_test_accuracy = <<0, 1>> /\ best_test_epoch = 0

OneTo(n) == [i \in 1 .. n |-> i]

IsPrefix(s, t) == Len(s) <= Len(t) /\ s = SubSeq(t, 1, Len(s))

\* the loader the call in progress reads
CallLoader == IF call.op = "generate" THEN dataloader.unsupervised_train_loader
              ELSE Loader(dataloader, call.split)

\* the number of batches the call in progress has been through
Processed == IF call.pc = "loop" \/ Len(CallLoader) = 0 THEN call.batch_idx
             ELSE call.batch_idx + 1

ExamplesIn(loader, n) == IndicesOf(SubSeq(loader, 1, n))

Healthy == /\ Len(dataloader.val_loader) > 0
           /\ Len(dataloader.test_loader) > 0
           /\ Len(dataloader.unsupervised_train_loader) > 0

\* C1: in the semi-supervised driver, when every read of the stop flag in
\* epoch 1 gives false and every read from epoch 2 on gives true (and no
\* loader is empty), ssl_init_epoch is invoked exactly once, at epoch 1, the
\* generator is invoked at no epoch >= 2, the PredictionSet stays what it was
\* at the start of epoch 2, nothing raises, and train_val and the Test
\* evaluation have run in every epoch 1..E when the run is done.
C1_FreezeAfterEpochOne ==
    (SSL /\ Healthy /\ hist.flag_e1_false /\ hist.flag_ge2_true) =>
        /\ pc # "raised"
        /\ hist.rebuild_epochs = (IF pc = "main" \/ (pc = "ssl_init" /\ epoch = 1)
                                  THEN <<>> ELSE <<1>>)
        /\ \A i \in 1 .. Len(hist.gen_epochs) : hist.gen_epochs[i] = 1
        /\ (epoch > 2 \/ (epoch = 2 /\ pc # "ssl_init")) =>
              <<predictions_indices, predictions_labels>> = hist.pred_at_2
        /\ pc = "done" => /\ hist.train_epochs = OneTo(args.epochs)
                          /\ hist.test_epochs = OneTo(args.epochs)
                          /\ hist.gen_epochs = <<1>>

C1_Witness ==
    /\ SSL /\ Healthy /\ hist.flag_e1_false /\ hist.flag_ge2_true
    /\ pc = "done" /\ args.epochs = 3
    /\ hist.rebuild_epochs = <<1>> /\ hist.gen_epochs = <<1>>
    /\ predictions_indices # <<>>

\* C2: with a cap n_batches >= 1 on a loader of more than n_batches batches,
\* evaluate and generate_labels_for_ssl finish having been through exactly
\* the first n_batches batches: example_count and the returned indices cover
\* those batches and no more.
C2_CapStopsAfterNBatches ==
    (call.pc = "done" /\ Truthy(call.n_batches) /\ Len(CallLoader) > call.n_batches) =>
        /\ Processed = call.n_batches
        /\ call.n_examples = Cardinality(ExamplesIn(CallLoader, call.n_batches))
        /\ call.op = "generate" => Len(call.ret[1]) = call.n_examples

\* C3: best_test_accuracy never decreases, and after every Test evaluation
\* of a run the best record is the maximum of the Test accuracies seen so far
\* together with the latest epoch that reached it.
C3_BestIsLatestMaximum ==
    /\ [](hist.test_epochs # <<>> =>
             /\ best_test_accuracy = hist.test_max
             /\ best_test_epoch = hist.test_argmax)
    /\ [][Geq(best_test_accuracy', best_test_accuracy)]_vars

C3_Witness ==
    /\ Len(hist.test_epochs) = 3
    /\ best_test_epoch = 2
    /\ best_test_accuracy = <<50, 1>>

\* the rates (in millionths) the scenario of C4 expects while epochs 1..7 train
C4_ClaimedRates == <<100000, 100000, 10000, 10000, 10000, 1000, 1000>>

C4_Rates == <<100000, 100000, 100000, 10000, 10000, 10000, 1000>>

\* C4 as stated: with milestones [3,6], decay factor 0.1 and initial rate
\* 0.1, the rate in effect while epoch e trains is 0.1, 0.1, 0.01, 0.01,
\* 0.01, 0.001, 0.001 for e = 1..7.
C4_RatesAsClaimed ==
    args.lr_scheduler =>
        \A e \in 1 .. Len(hist.lr_at_train) :
            e <= 7 => hist.lr_at_train[e] = C4_ClaimedRates[e]

\* C4 amended: the schedule is stepped after the epoch, so the rate in effect
\* while epoch e trains is 0.1, 0.1, 0.1, 0.01, 0.01, 0.01, 0.001 for
\* e = 1..7 (0,0,0,1,1,1,2 decays).
C4_RatesInEffect ==
    (args.lr_scheduler /\ pc # "raised") =>
        /\ \A e \in 1 .. Len(hist.lr_at_train) :
              e <= 7 => hist.lr_at_train[e] = C4_Rates[e]
        /\ last_epoch = Len(hist.lr_at_train) - (IF pc \in {"test", "generate", "lr_step"}
                                                 THEN 1 ELSE 0)

C4_Witness ==
    /\ args.lr_scheduler
    /\ Len(hist.lr_at_train) = 7
    /\ hist.lr_at_train[7] = 1000

\* the epochs whose checkpoint step is over
EpochsOver == IF pc \in {"closing", "done"} THEN epoch
              ELSE IF epoch = 0 THEN 0 ELSE epoch - 1

\* C5: in both drivers the checkpoints written are, in order and once each,
\* those of the finished epochs e with e mod k = 0, keyed by experiment name
\* and epoch; k=5, E=12 gives exactly the epochs 5 and 10.
C5_CheckpointsEveryKth ==
    /\ saved = SelectSeq([e \in 1 .. EpochsOver |-> <<args.exp_name, e>>],
                         LAMBDA key : key[2] % args.checkpoint_save_interval = 0)
    /\ (pc = "done" /\ args.epochs = 12 /\ args.checkpoint_save_interval = 5) =>
          saved = <<<<args.exp_name, 5>>, <<args.exp_name, 10>>>>

C5_Witness ==
    /\ SSL /\ pc = "done"
    /\ args.epochs = 12 /\ args.checkpoint_save_interval = 5
    /\ Len(saved) = 2

\* C6: a pass of evaluate or generate_labels_for_ssl over a loader without
\* examples raises ZeroDivisionError; the driver does nothing after it: no
\* later epoch runs and the best record is not updated by that call.
C6_EmptyStreamIsFatal ==
    /\ [](/\ pc = "raised" => error = "ZeroDivisionError"
          /\ Len(dataloader.val_loader) = 0 =>
                /\ pc \in {"main", "ssl_init", "train_val", "raised"}
                /\ epoch <= 1 /\ InitialBest
          /\ Len(dataloader.test_loader) = 0 =>
                /\ pc \in {"main", "ssl_init", "train_val", "test", "raised"}
                /\ epoch <= 1 /\ InitialBest
          /\ Len(dataloader.unsupervised_train_loader) = 0 =>
                /\ hist.gen_epochs = <<>>
                /\ pc = "lr_step" => dataloader.stop_label_generation)
    /\ [][pc # "raised"]_vars

C6_Witness ==
    /\ pc = "raised" /\ error = "ZeroDivisionError"
    /\ Len(dataloader.test_loader) = 0
    /\ hist.train_epochs = <<1>>

\* C7: what generate_labels_for_ssl returns are two sequences of the same
\* length, no index occurs twice, and the label at position i is the model's
\* prediction for the example whose index is at position i.
C7_IndexLabelAssociation ==
    (call.op = "generate" /\ call.pc = "done") =>
        /\ Len(call.ret[1]) = Len(call.ret[2])
        /\ \A i, j \in 1 .. Len(call.ret[1]) : call.ret[1][i] = call.ret[1][j] => i = j
        /\ \A i \in 1 .. Len(call.ret[2]) : call.ret[2][i] = model[call.ret[1][i]]
        /\ {call.ret[1][i] : i \in 1 .. Len(call.ret[1])} = ExamplesIn(CallLoader, Processed)

C7_Witness ==
    /\ call.op = "generate" /\ call.pc = "done"
    /\ Truthy(call.n_batches)
    /\ Len(call.ret[1]) = 2
    /\ call.ret[2][1] # call.ret[2][2]

\* the best record after a call of evaluate, given the one before it
BestAfter(updated) ==
    /\ best_test_accuracy = (IF updated THEN call.ret ELSE call.best_before[1])
    /\ best_test_epoch = (IF call.verbose /\ call.epoch = None THEN 0
                          ELSE IF updated THEN call.epoch ELSE call.best_before[2])

\* C8 as stated: a call of evaluate with verbose=false leaves the best record
\* unchanged for every split, and the best record changes only in a verbose
\* call on "Test" whose accuracy is >= the stored best.
C8_VerboseGatesBestRecord ==
    (call.op = "evaluate" /\ call.pc = "done") =>
        /\ ~ call.verbose => <<best_test_accuracy, best_test_epoch>> = call.best_before
        /\ <<best_test_accuracy, best_test_epoch>> # call.best_before =>
              call.verbose /\ call.split = "Test" /\ Geq(call.ret, call.best_before[1])

\* C8 amended: the split, not verbose, gates the best record: a call on "Val"
\* leaves best_test_accuracy unchanged, a call on "Test" replaces the record
\* by (accuracy, epoch) exactly when the accuracy is >= the stored best,
\* verbose or not; verbose only sets best_test_epoch to 0 when the call was
\* given no epoch.
C8_SplitGatesBestRecord ==
    (call.op = "evaluate" /\ call.pc = "done") =>
        BestAfter(call.split = "Test" /\ Geq(call.ret, call.best_before[1]))

C8_Witness ==
    /\ call.op = "evaluate" /\ call.pc = "done"
    /\ call.split = "Test" /\ ~ call.verbose
    /\ best_test_accuracy # call.best_before[1]
    /\ best_test_epoch = call.epoch

\* the examples of the first n batches the model classifies right
RightIn(loader, n) == {i \in ExamplesIn(loader, n) : model[i] = Target(i)}

\* C9: in an uncapped pass of evaluate over a non-empty loader, after each
\* batch n_examples is the number of examples of the batches gone through
\* and correct the number of them predicted right; the accuracy returned is
\* 100 * correct / n_examples, within [0,100]; two batches of 4 with 4 and 2
\* right give 8 examples and 75.
C9_RunningCounts ==
    (call.op = "evaluate" /\ ~ Truthy(call.n_batches) /\ Len(CallLoader) > 0
       /\ call.pc \in {"loop", "finalize", "done"}) =>
        /\ call.n_examples = SumSeq([j \in 1 .. Processed |-> Len(CallLoader[j])])
        /\ call.correct = Cardinality(RightIn(CallLoader, Processed))
        /\ call.pc = "done" =>
              /\ call.ret[1] * call.n_examples = 100 * call.correct * call.ret[2]
              /\ Geq(call.ret, <<0, 1>>) /\ Geq(<<100, 1>>, call.ret)
              /\ (/\ CallLoader = Stream(0, <<4, 4>>)
                  /\ Cardinality(RightIn(CallLoader, 1)) = 4
                  /\ Cardinality(RightIn(CallLoader, 2)) = 6) =>
                    call.n_examples = 8 /\ call.ret = <<75, 1>>

C9_Witness ==
    /\ call.op = "evaluate" /\ call.pc = "done" /\ ~ Truthy(call.n_batches)
    /\ CallLoader = Stream(0, <<4, 4>>)
    /\ Cardinality(RightIn(CallLoader, 1)) = 4
    /\ call.n_examples = 8
    /\ call.ret = <<75, 1>>

\* the steps of epoch ep of the semi-supervised driver while labels are due
StepsOf(ep) ==
    <<"ssl_init_epoch", "train_val", "evaluate", "generate_labels_for_ssl">>
    \o (IF args.lr_scheduler THEN <<"lr_scheduler.step">> ELSE <<>>)
    \o (IF ep % args.checkpoint_save_interval = 0 THEN <<"torch.save">> ELSE <<>>)

\* C10: while every read of the stop flag gives false, an epoch of the
\* semi-supervised driver goes ssl_init_epoch, train_val, Test evaluation,
\* generator, schedule step, checkpoint, in this order; ssl_init_epoch gets
\* empty sequences at epoch 1 and at an epoch e > 1 exactly what the
\* generator returned at epoch e-1.
C10_EpochOrderAndHandOver ==
    (SSL /\ hist.flag_all_false /\ pc \notin {"main", "raised"}) =>
        /\ IF pc = "ssl_init"
           THEN epoch > 1 => hist.steps = StepsOf(epoch - 1)
           ELSE /\ IsPrefix(hist.steps, StepsOf(epoch))
                /\ pc \in {"closing", "done"} => hist.steps = StepsOf(epoch)
                /\ pc = "train_val" => hist.steps = SubSeq(StepsOf(epoch), 1, 1)
                /\ pc = "test" => hist.steps = SubSeq(StepsOf(epoch), 1, 2)
                /\ pc = "generate" => hist.steps = SubSeq(StepsOf(epoch), 1, 3)
                /\ pc = "lr_step" => hist.steps = SubSeq(StepsOf(epoch), 1, 4)
        /\ pc \in {"train_val", "test", "generate"} =>
              /\ hist.rebuild_epochs = OneTo(epoch)
              /\ IF epoch = 1
                 THEN hist.rebuild_args = <<<<>>, <<>>>>
                 ELSE /\ hist.gen_ret[1] = epoch - 1
                      /\ hist.rebuild_args = <<hist.gen_ret[2], hist.gen_ret[3]>>
                      /\ dataloader.labeled = hist.rebuild_args

C10_Witness ==
    /\ SSL /\ hist.flag_all_false
    /\ pc = "train_val" /\ epoch = 3
    /\ hist.rebuild_args[1] # <<>>
    /\ hist.steps = <<"ssl_init_epoch">>

====
